---- MODULE Spec2Model ----
(***************************************************************************)
(* Model of the dynamic tool registration server, src/src/mcp/server.py.   *)
(*                                                                         *)
(* A source text is a sequence of tokens.  The tokens "tick" (one          *)
(* backtick character) and "python" spell the fence markers: the opening   *)
(* marker is three ticks and "python", the closing one three ticks.  Every *)
(* other token is one top-level statement of the snippet:                  *)
(*    "def_a" "def_b" "def_h" "def_U"   def a / b / helper / UnnamedTool   *)
(*    "set_a"                           a = 1  (a value that is no callable) *)
(*    "raise"                           raise ValueError  (an Exception)   *)
(*    "exit"                            raise SystemExit  (a BaseException)*)
(*    "pass"                            a statement that binds nothing     *)
(***************************************************************************)
EXTENDS Integers, Sequences, FiniteSets, TLC

VARIABLES
    DEBUG,              \* os.getenv("DEBUG") is set
    file,               \* what is on disk at script_info_path
    pc,                 \* position of the entry point / of register_tools
    script_info_list,   \* the list json.load returned
    idx,                \* position of the for loop in script_info_list
    run,                \* number of the current call of register_tools
    ns,                 \* _mcp_tools_namespace
    registry,           \* the tools held by mcp (FastMCP's tool table)
    dstate,             \* per descriptor of this call: the states it went through
    mcp_tools,          \* per call that reached it: what mcp.get_tools() gave
    loaded,             \* per call: the registry file as the call found it
    retval,             \* what register_tools handed back to its caller
    stderr,             \* lines written to sys.stderr
    stdout,             \* what the front end wrote to the protocol channel
    script_content,     \* a source body given to the fence stripping
    stripped            \* its result, once computed

vars == <<DEBUG, file, pc, script_info_list, idx, run, ns, registry, dstate,
          mcp_tools, loaded, retval, stderr, stdout, script_content, stripped>>

(***************************************************************************)
(* Bounds.                                                                 *)
(***************************************************************************)
MaxDescs == 3       \* longest descriptor list in the registry file
MaxReloadDescs == 2 \* the same where register_tools is called again
MaxRuns == 2        \* calls of register_tools in one process
MaxRequests == 2    \* requests served by the front end
MaxLen == 10        \* longest source body given to the fence stripping alone

(***************************************************************************)
(* Strings as token sequences: str.startswith, str.endswith, str.replace.  *)
(***************************************************************************)
OpenFence == <<"tick", "tick", "tick", "python">>
CloseFence == <<"tick", "tick", "tick">>

StartsWith(s, prefix) ==
    /\ Len(s) >= Len(prefix)
    /\ SubSeq(s, 1, Len(prefix)) = prefix

EndsWith(s, suffix) ==
    /\ Len(s) >= Len(suffix)
    /\ SubSeq(s, Len(s) - Len(suffix) + 1, Len(s)) = suffix

\* s.replace(old, empty): every non-overlapping occurrence, leftmost first.
RECURSIVE Remove(_, _)
Remove(s, old) ==
    IF Len(s) < Len(old) THEN s
    ELSE IF SubSeq(s, 1, Len(old)) = old
         THEN Remove(SubSeq(s, Len(old) + 1, Len(s)), old)
         ELSE <<Head(s)>> \o Remove(Tail(s), old)

\* server.py lines 37-40.
StripFences(s) ==
    LET s1 == IF StartsWith(s, OpenFence) THEN Remove(s, OpenFence) ELSE s
    IN  IF EndsWith(s1, CloseFence) THEN Remove(s1, CloseFence) ELSE s1

(***************************************************************************)
(* Values of the namespace and of the tool table.                          *)
(***************************************************************************)
Names == {"a", "b", "h", "UnnamedTool"}

Absent == [kind |-> "absent"]
Const == [kind |-> "const"]
\* The function object that statement "def sym" of descriptor i creates in call r.
Func(sym, i, r) == [kind |-> "func", sym |-> sym, by |-> i, run |-> r]

DefStmts == {"def_a", "def_b", "def_h", "def_U"}

Target(stmt) ==
    CASE stmt = "def_a" -> "a"
      [] stmt = "def_b" -> "b"
      [] stmt = "def_h" -> "h"
      [] stmt = "def_U" -> "UnnamedTool"
      [] stmt = "set_a" -> "a"

\* Running the statements of a compiled snippet in order against globals g.
\* "python" is a bare name no snippet binds: a NameError.
RECURSIVE ExecFrom(_, _, _, _)
ExecFrom(code, g, i, r) ==
    IF code = <<>> THEN [ns |-> g, exc |-> "none"]
    ELSE LET stmt == Head(code) IN
         CASE stmt \in DefStmts ->
                ExecFrom(Tail(code), [g EXCEPT ![Target(stmt)] = Func(Target(stmt), i, r)], i, r)
           [] stmt = "set_a" ->
                ExecFrom(Tail(code), [g EXCEPT ![Target(stmt)] = Const], i, r)
           [] stmt = "pass" -> ExecFrom(Tail(code), g, i, r)
           [] stmt \in {"raise", "python"} -> [ns |-> g, exc |-> "Exception"]
           [] stmt = "exit" -> [ns |-> g, exc |-> "BaseException"]

\* exec(script_content, _mcp_tools_namespace), server.py line 47: a backtick is
\* no Python token, so the snippet does not compile (SyntaxError) and nothing
\* of it runs; otherwise its statements run until one raises.
Exec(code, g, i, r) ==
    IF \E k \in 1..Len(code) : code[k] = "tick"
    THEN [ns |-> g, exc |-> "Exception"]
    ELSE ExecFrom(code, g, i, r)

(***************************************************************************)
(* Descriptors: the entries of the JSON list.  "has" is the set of keys    *)
(* the JSON object carries.                                                *)
(***************************************************************************)
Tool(name, description, script) ==
    [isdict |-> TRUE, has |-> {"name", "description", "script_content"},
     name |-> name, description |-> description,
     script_is_str |-> TRUE, script_content |-> script]

WellA == Tool("a", "about a", OpenFence \o <<"def_a">> \o CloseFence)
WellB == Tool("b", "about b", <<"def_b">>)
NamedADefB == Tool("a", "other a", <<"def_b">>)
NamedBDefA == Tool("b", "other b", <<"def_a">>)
HelperA == Tool("a", "a with helper", <<"def_h", "def_a">>)
HelperB == Tool("b", "b with helper", <<"def_h", "def_b">>)
PartialA == Tool("a", "a then raise", <<"def_a", "raise">>)
SyntaxB == Tool("b", "b broken", <<"def_b", "tick">>)
ExitA == Tool("a", "a exits", <<"exit">>)
ConstA == Tool("a", "a constant", <<"set_a">>)
Nameless == [Tool("", "", <<"def_U">>) EXCEPT !.has = {"script_content"}]
Bare == [Tool("", "", <<>>) EXCEPT !.has = {}]
NullScript == [Tool("b", "b null script", <<>>) EXCEPT !.script_is_str = FALSE]
NotADict == [Tool("", "", <<>>) EXCEPT !.isdict = FALSE, !.has = {}]

DescriptorPool ==
    {WellA, WellB, NamedADefB, NamedBDefA, HelperA, HelperB, PartialA, SyntaxB,
     ExitA, ConstA, Nameless, Bare, NullScript, NotADict}

\* script_info.get(key, default)
\* A plausible slip: the description read without its default.
GetDescriptionAsIs(script_info, key, default) ==
    IF key \in script_info.has \/ key = "description" THEN script_info[key] ELSE default

\* script_info.get(key, default), lines 33-35.
Get(script_info, key, default) ==
    IF key \in script_info.has THEN script_info[key] ELSE default

Line(msg, names) == [msg |-> msg, arg |-> names]

\* What goes to sys.stderr behind "if os.getenv('DEBUG')".
Debug(debug, lines) == IF debug THEN lines ELSE <<>>

\* A plausible slip: a name the table already holds keeps its old tool.
McpToolKeepFirst(reg, name, fn, description) ==
    IF reg[name] = Absent
    THEN [reg EXCEPT ![name] = [kind |-> "tool", fn |-> fn, description |-> description]]
    ELSE reg

\* mcp.tool(tool_function, name=name, description=description), lines 68-72:
\* the tool table keeps one tool per name and a tool added under a name it
\* already holds takes the place of the old one.
McpTool(reg, name, fn, description) ==
    [reg EXCEPT ![name] = [kind |-> "tool", fn |-> fn, description |-> description]]

\* A plausible slip: every descriptor evaluated against globals of its own.
FreshGlobals(g) == [n \in Names |-> Absent]

\* The globals exec is given, line 47: the one module-level dict of line 26.
ExecGlobals(g) == g

\* A plausible slip: the value is handed to mcp.tool without being inspected.
SignatureUnchecked(tool_function) == "ok"

\* inspect.signature(tool_function), line 64: TypeError for a value that is
\* no callable.
Signature(tool_function) ==
    IF tool_function.kind = "func" THEN "ok" ELSE "TypeError"

\* A plausible slip: a descriptor that fails takes the tool of its name away.
AbandonAndRemove(reg, name) == [reg EXCEPT ![name] = Absent]

\* The returns of lines 53 and 59 and the handler of lines 75-79: the
\* descriptor is abandoned and mcp is left as it was.
Abandon(reg, name) == reg

\* register_tool_from_script(script_info), lines 28-79, as descriptor i of
\* call r: the namespace and tool table it leaves, the lines it writes to
\* stderr, the states the descriptor went through, and what it raises.
RegisterToolFromScript(script_info, g, reg, i, r, debug) ==
    IF ~script_info.isdict \/ ~script_info.script_is_str
    THEN \* script_info.get / script_content.startswith: AttributeError
         [ns |-> g, registry |-> reg, err |-> <<>>, path |-> <<"Pending">>,
          raised |-> "Exception"]
    ELSE
    LET name == Get(script_info, "name", "UnnamedTool")
        description == Get(script_info, "description", "No description provided.")
        code == StripFences(Get(script_info, "script_content", <<>>))
        ex == Exec(code, ExecGlobals(g), i, r)
        tool_function == ex.ns[name]
        begin == Debug(debug, <<Line("Registering tool", {name})>>)
    IN  CASE ex.exc = "BaseException" ->
               [ns |-> ex.ns, registry |-> reg, err |-> begin,
                path |-> <<"Pending", "Materializing">>, raised |-> "BaseException"]
          [] ex.exc = "Exception" ->
               [ns |-> ex.ns, registry |-> Abandon(reg, name),
                err |-> begin \o Debug(debug, <<Line("Error executing script", {name}),
                                                Line("traceback", {name})>>),
                path |-> <<"Pending", "Materializing", "Failed">>, raised |-> "none"]
          [] ex.exc = "none" /\ tool_function = Absent ->
               [ns |-> ex.ns, registry |-> Abandon(reg, name),
                err |-> begin \o Debug(debug, <<Line("Tool function not found", {name})>>),
                path |-> <<"Pending", "Materializing", "Resolving", "Failed">>,
                raised |-> "none"]
          [] ex.exc = "none" /\ Signature(tool_function) = "TypeError" ->
               [ns |-> ex.ns, registry |-> Abandon(reg, name),
                err |-> begin \o Debug(debug, <<Line("Error registering tool", {name})>>)
                             \o <<Line("traceback", {name})>>,
                path |-> <<"Pending", "Materializing", "Resolving", "Failed">>,
                raised |-> "none"]
          [] OTHER ->
               [ns |-> ex.ns, registry |-> McpTool(reg, name, tool_function, description),
                err |-> begin \o Debug(debug, <<Line("Function signature", {name}),
                                                Line("Tool registered successfully", {name})>>),
                path |-> <<"Pending", "Materializing", "Resolving", "Registered">>,
                raised |-> "none"]

(***************************************************************************)
(* The registry file and register_tools, lines 81-109.                     *)
(***************************************************************************)
Lists(S, n) == UNION {[1..k -> S] : k \in 0..n}

\* A JSON list of entries; no file; text that is no JSON; a JSON number; a
\* JSON object, whose iteration gives its keys, which are strings.
Files ==
    {[kind |-> "list", items |-> l] : l \in Lists(DescriptorPool, MaxDescs)}
    \cup {[kind |-> k, items |-> <<>>] : k \in {"missing", "badjson", "scalar"}}
    \cup {[kind |-> "object", items |-> <<NotADict>>]}

\* What lines 88-91 raise before the first descriptor is reached.
LoadOutcome(f) ==
    CASE f.kind = "missing" -> "FileNotFoundError"
      [] f.kind = "badjson" -> "JSONDecodeError"
      [] f.kind = "scalar" -> "Exception"
      [] OTHER -> "none"

\* A plausible slip: the handlers without the last one, except Exception.
ExceptClauseNoGeneric(exc) ==
    CASE exc = "FileNotFoundError" -> "Script info file not found"
      [] exc = "JSONDecodeError" -> "Error decoding JSON"
      [] OTHER -> "uncaught"

\* The except clauses of register_tools, lines 94-102: the message of the
\* clause that takes the error, "uncaught" when none does.
ExceptClause(exc) ==
    CASE exc = "FileNotFoundError" -> "Script info file not found"
      [] exc = "JSONDecodeError" -> "Error decoding JSON"
      [] exc = "Exception" -> "An unexpected error occurred"
      [] OTHER -> "uncaught"

\* mcp.get_tools(), line 107: the tools by name.
GetTools(reg) == reg

\* A plausible slip: the names the descriptors of the file declare.
ToolNamesDeclared(tools) ==
    {Get(script_info_list[k], "name", "UnnamedTool") : k \in 1..Len(script_info_list)}

\* [tool for tool in mcp_tools], line 109: the names of the tools.
ToolNames(tools) == {n \in Names : tools[n] # Absent}

None == [kind |-> "None"]

Init ==
    /\ DEBUG \in BOOLEAN
    /\ file \in Files
    /\ pc = "start"
    /\ script_info_list = <<>>
    /\ idx = 1
    /\ run = 1
    /\ ns = [n \in Names |-> Absent]
    /\ registry = [n \in Names |-> Absent]
    /\ dstate = <<>>
    /\ mcp_tools = <<>>
    /\ loaded = <<>>
    /\ retval = [kind |-> "pending"]
    /\ stderr = <<>>
    /\ stdout = <<>>
    /\ script_content = <<>>
    /\ stripped = <<>>

\* Lines 87-90 and the handlers they can reach: open, json.load, entering the loop.
Load ==
    /\ pc = "start"
    /\ LET exc == LoadOutcome(file)
           clause == ExceptClause(exc)
       IN  IF exc = "none"
           THEN /\ script_info_list' = file.items
                /\ dstate' = [k \in 1..Len(file.items) |-> <<"Pending">>]
                /\ pc' = IF file.items = <<>> THEN "summary" ELSE "loop"
                /\ stderr' = stderr
           ELSE /\ script_info_list' = <<>>
                /\ dstate' = <<>>
                /\ pc' = IF clause = "uncaught" THEN "crashed" ELSE "summary"
                /\ stderr' = IF clause = "uncaught" THEN stderr
                             ELSE stderr \o Debug(DEBUG, <<Line(clause, {})>>)
    /\ idx' = 1
    /\ loaded' = Append(loaded, file)
    /\ UNCHANGED <<DEBUG, file, run, ns, registry, mcp_tools, retval, stdout,
                   script_content, stripped>>

\* A plausible slip: the loop steps over every other entry.
LoopAdvanceSkipping(i) == i + 2

\* The for loop of line 91 takes the entries in the order of the list.
LoopAdvance(i) == i + 1

\* One turn of the loop, lines 91-92: await register_tool_from_script, and
\* where an error it raises goes (lines 100-102, or out of register_tools).
Step ==
    /\ pc = "loop"
    /\ LET script_info == script_info_list[idx]
           res == RegisterToolFromScript(script_info, ns, registry, idx, run, DEBUG)
           clause == ExceptClause(res.raised)
       IN  /\ ns' = res.ns
           /\ registry' = res.registry
           /\ dstate' = [dstate EXCEPT ![idx] = res.path]
           /\ stderr' = stderr \o res.err \o
                          (IF res.raised = "none" \/ clause = "uncaught" THEN <<>>
                           ELSE Debug(DEBUG, <<Line(clause, {})>>))
           /\ pc' = IF res.raised = "none"
                    THEN (IF LoopAdvance(idx) > Len(script_info_list)
                          THEN "summary" ELSE "loop")
                    ELSE IF clause = "uncaught" THEN "crashed" ELSE "summary"
           /\ idx' = IF res.raised = "none" THEN LoopAdvance(idx) ELSE idx
           /\ IF script_info.isdict /\ script_info.script_is_str
              THEN /\ script_content' = Get(script_info, "script_content", <<>>)
                   /\ stripped' = StripFences(script_content')
              ELSE UNCHANGED <<script_content, stripped>>
    /\ UNCHANGED <<DEBUG, file, script_info_list, run, mcp_tools, loaded, retval,
                   stdout>>

\* Lines 104-109: the closing lines, mcp.get_tools(), and the return.
Summary ==
    /\ pc = "summary"
    /\ mcp_tools' = Append(mcp_tools, GetTools(registry))
    /\ stderr' = stderr \o Debug(DEBUG, <<Line("All tools registered successfully", {}),
                                          Line("Registered tools",
                                               ToolNames(GetTools(registry)))>>)
    /\ retval' = None
    /\ pc' = "returned"
    /\ UNCHANGED <<DEBUG, file, script_info_list, idx, run, ns, registry, dstate,
                   loaded, stdout, script_content, stripped>>

\* A plausible slip: register_tools started as a task that runs beside mcp.run().
StartsWhileRegistering(p) == p \in {"loop", "summary", "returned"}

\* Lines 113-114: asyncio.run(register_tools(...)) returns when the coroutine
\* has, and only then is mcp.run() reached.
RunsToCompletion(p) == p = "returned"

\* Line 114: mcp.run().
McpRun ==
    /\ RunsToCompletion(pc)
    /\ pc' = "serving"
    /\ UNCHANGED <<DEBUG, file, script_info_list, idx, run, ns, registry, dstate,
                   mcp_tools, loaded, retval, stderr, stdout, script_content, stripped>>

\* The front end lists the tools: name and description of each.
Discover ==
    /\ pc = "serving"
    /\ Len(stdout) < MaxRequests
    /\ stdout' = Append(stdout,
          [op |-> "Discover",
           tools |-> {[name |-> n, description |-> registry[n].description] :
                        n \in ToolNames(registry)}])
    /\ UNCHANGED <<DEBUG, file, pc, script_info_list, idx, run, ns, registry, dstate,
                   mcp_tools, loaded, retval, stderr, script_content, stripped>>

\* A plausible slip: a name the table does not hold answered as any failure.
DispatchGenericError(reg, g, name) ==
    IF reg[name] = Absent
    THEN [op |-> "Invoke", name |-> name, status |-> "error", error |-> "Error"]
    ELSE [op |-> "Invoke", name |-> name, status |-> "ok",
          fn |-> reg[name].fn, helper |-> g["h"]]

\* The answer of the front end to a call by name (section 4.5 of the design):
\* ToolNotFoundError for a name the table does not hold, else the result of
\* the callable.  The callable runs with the shared namespace as its globals,
\* so a global it reads (the helper h) is what the namespace binds at the
\* time of the call.
Dispatch(reg, g, name) ==
    IF reg[name] = Absent
    THEN [op |-> "Invoke", name |-> name, status |-> "error",
          error |-> "ToolNotFoundError"]
    ELSE [op |-> "Invoke", name |-> name, status |-> "ok",
          fn |-> reg[name].fn, helper |-> g["h"]]

\* The front end calls a tool by name.
Invoke(name) ==
    /\ pc = "serving"
    /\ Len(stdout) < MaxRequests
    /\ stdout' = Append(stdout, Dispatch(registry, ns, name))
    /\ UNCHANGED <<DEBUG, file, pc, script_info_list, idx, run, ns, registry, dstate,
                   mcp_tools, loaded, retval, stderr, script_content, stripped>>

\* The registry file as a later call finds it: as it was, or with one entry gone.
Without(l, k) == SubSeq(l, 1, k - 1) \o SubSeq(l, k + 1, Len(l))

Reloads(f) ==
    {f} \cup {[f EXCEPT !.items = Without(f.items, k)] : k \in 1..Len(f.items)}

\* register_tools called again in the same process (a reload).
CallAgain ==
    /\ pc = "returned"
    /\ run < MaxRuns
    /\ run' = run + 1
    /\ file' \in IF file.kind = "list" THEN Reloads(file) ELSE {file}
    /\ pc' = "start"
    /\ retval' = [kind |-> "pending"]
    /\ UNCHANGED <<DEBUG, script_info_list, idx, ns, registry, dstate, mcp_tools,
                   loaded, stderr, stdout, script_content, stripped>>

RequestNames == {"a", "b"}

\* The server entry point, lines 111-114.
Next ==
    \/ Load
    \/ Step
    \/ Summary
    \/ McpRun
    \/ Discover
    \/ \E name \in RequestNames : Invoke(name)

Spec == Init /\ [][Next]_vars

\* A caller that calls register_tools up to MaxRuns times in one process.
InitReload ==
    /\ Init
    /\ Len(file.items) <= MaxReloadDescs

NextReload ==
    \/ Load
    \/ Step
    \/ Summary
    \/ CallAgain

SpecReload == InitReload /\ [][NextReload]_vars

(***************************************************************************)
(* The fence stripping alone, over every source body up to MaxLen tokens.  *)
(***************************************************************************)
SourceTokens == {"tick", "python", "pass"}

InitStrip ==
    /\ DEBUG = FALSE
    /\ file = [kind |-> "missing", items |-> <<>>]
    /\ pc = "strip"
    /\ script_info_list = <<>>
    /\ idx = 1
    /\ run = 1
    /\ ns = [n \in Names |-> Absent]
    /\ registry = [n \in Names |-> Absent]
    /\ dstate = <<>>
    /\ mcp_tools = <<>>
    /\ loaded = <<>>
    /\ retval = [kind |-> "pending"]
    /\ stderr = <<>>
    /\ stdout = <<>>
    /\ script_content \in Lists(SourceTokens, MaxLen)
    /\ stripped = <<>>

\* Lines 37-40 applied to script_content.
Strip ==
    /\ pc = "strip"
    /\ stripped' = StripFences(script_content)
    /\ pc' = "stripped"
    /\ UNCHANGED <<DEBUG, file, script_info_list, idx, run, ns, registry, dstate,
                   mcp_tools, loaded, retval, stderr, stdout, script_content>>

NextStrip == Strip

SpecStrip == InitStrip /\ [][NextStrip]_vars

(***************************************************************************)
(* Vocabulary of the claims.                                               *)
(***************************************************************************)
Last(s) == s[Len(s)]

Finished == pc \in {"returned", "serving", "crashed"}

EmptyTable == [n \in Names |-> Absent]

\* A JSON object whose script_content, when given, is a string.
IsObject(d) == d.isdict /\ d.script_is_str

NameOf(d) == Get(d, "name", "UnnamedTool")

SourceOf(d) == Get(d, "script_content", <<>>)

\* A source body without its leading opening marker and its trailing closing
\* marker, when it has them; every other token stays.
Unfenced(s) ==
    LET s1 == IF StartsWith(s, OpenFence) THEN SubSeq(s, Len(OpenFence) + 1, Len(s)) ELSE s
    IN  IF EndsWith(s1, CloseFence) THEN SubSeq(s1, 1, Len(s1) - Len(CloseFence)) ELSE s1

\* What evaluating the descriptor's source raises.
Raised(d) == Exec(StripFences(SourceOf(d)), EmptyTable, 0, 0).exc

\* The names the statements of the descriptor's source bind.
Defined(d) ==
    LET code == StripFences(SourceOf(d))
    IN  {Target(code[k]) : k \in {j \in 1..Len(code) : code[j] \in DefStmts \cup {"set_a"}}}

\* The source defines exactly one top-level callable, named as the descriptor.
WellFormed(d) ==
    /\ IsObject(d)
    /\ {"name", "script_content"} \subseteq d.has
    /\ Len(Unfenced(d.script_content)) = 1
    /\ Unfenced(d.script_content)[1] \in DefStmts
    /\ Target(Unfenced(d.script_content)[1]) = d.name

(***************************************************************************)
(* C1.  A descriptor whose source raises during evaluation, whatever the   *)
(* kind of error, does not make register_tools raise: the call returns,    *)
(* that descriptor ends Failed, and every well-formed descriptor of the    *)
(* batch is registered.  Taken over batches of JSON objects with string    *)
(* sources, so that only raising sources are at stake.                     *)
(***************************************************************************)
C1_RaisingSourceIsIsolated ==
    ( /\ Finished
      /\ file.kind = "list"
      /\ \A k \in 1..Len(file.items) : IsObject(file.items[k])
      /\ \E k \in 1..Len(file.items) : Raised(file.items[k]) # "none" )
    => /\ pc # "crashed"
       /\ \A k \in 1..Len(file.items) :
            /\ Raised(file.items[k]) # "none" => Last(dstate[k]) = "Failed"
            /\ WellFormed(file.items[k]) =>
                 /\ Last(dstate[k]) = "Registered"
                 /\ registry[NameOf(file.items[k])] # Absent

(***************************************************************************)
(* C2.  A descriptor whose source evaluates without error and does not     *)
(* itself define its name fails to register, and the Registry holds no     *)
(* entry for the name afterwards, whatever the namespace already binds.    *)
(* Taken where the Registry held no entry for the name before the          *)
(* descriptor, so that an entry afterwards is this descriptor's.           *)
(***************************************************************************)
C2_UndefinedNameIsNotRegistered ==
    [][ ( /\ pc = "loop"
          /\ IsObject(script_info_list[idx])
          /\ Raised(script_info_list[idx]) = "none"
          /\ NameOf(script_info_list[idx]) \notin Defined(script_info_list[idx])
          /\ registry[NameOf(script_info_list[idx])] = Absent )
        => /\ Last(dstate'[idx]) = "Failed"
           /\ registry'[NameOf(script_info_list[idx])] = Absent ]_vars

(***************************************************************************)
(* C3.  Idempotence: register_tools called twice on the same descriptor    *)
(* sequence leaves the Registry with the entries the first call left: the  *)
(* same names, each with the callable of the same descriptor and the same  *)
(* description.                                                            *)
(***************************************************************************)
SameEntries(t1, t2) ==
    \A n \in Names :
        /\ (t1[n] = Absent) <=> (t2[n] = Absent)
        /\ t1[n] # Absent /\ t2[n] # Absent =>
             /\ t1[n].description = t2[n].description
             /\ t1[n].fn.kind = t2[n].fn.kind
             /\ t1[n].fn.kind = "func" =>
                  /\ t1[n].fn.sym = t2[n].fn.sym
                  /\ t1[n].fn.by = t2[n].fn.by

C3_RegisterAllIsIdempotent ==
    ( /\ pc = "returned"
      /\ Len(loaded) = 2
      /\ loaded[1] = loaded[2]
      /\ Len(mcp_tools) = 2 )
    => SameEntries(mcp_tools[1], mcp_tools[2])

(***************************************************************************)
(* C4.  Every well-formed descriptor is in the Registry under its name     *)
(* once register_tools has returned, whatever its position and whatever    *)
(* descriptors (valid, failing or malformed) precede it.                   *)
(***************************************************************************)
C4_WellFormedIsRegistered ==
    (pc \in {"returned", "serving"} /\ file.kind = "list")
    => \A k \in 1..Len(file.items) :
         WellFormed(file.items[k]) =>
           /\ registry[NameOf(file.items[k])] # Absent
           /\ registry[NameOf(file.items[k])].fn.kind = "func"
           /\ registry[NameOf(file.items[k])].fn.sym = NameOf(file.items[k])

C6_DiagnosticsOnlyUnderDebug ==
    /\ ~DEBUG => stderr = <<>>
    /\ \A k \in 1..Len(stdout) : "msg" \notin DOMAIN stdout[k]

(***************************************************************************)
(* C7.  Fence stripping removes exactly the leading opening marker and the *)
(* trailing closing marker, when the body has them, and leaves every other *)
(* token of the body, interior markers included, as it was.                *)
(***************************************************************************)
C7_StripsOnlyOuterFences ==
    pc = "stripped" => stripped = Unfenced(script_content)

(***************************************************************************)
(* C8.  When the registry file cannot be loaded (no file, no JSON, a top   *)
(* level that is no list of descriptors), register_tools does not raise,   *)
(* the Registry stays empty, and once it has returned the front end can    *)
(* start and does not find the process gone.                               *)
(***************************************************************************)
LoadFails == file.kind \in {"missing", "badjson", "scalar", "object"}

C8_LoadFailureStillServes ==
    LoadFails
    => /\ pc # "crashed"
       /\ pc \in {"start", "loop", "summary"} => ENABLED (Load \/ Step \/ Summary)
       /\ pc = "returned" => (retval = None /\ ENABLED McpRun)
       /\ registry = EmptyTable
       /\ \A k \in 1..Len(stdout) :
            stdout[k].op = "Discover" => stdout[k].tools = {}

C8_ServingAfterLoadFailure ==
    /\ LoadFails
    /\ pc = "serving"
    /\ \E k \in 1..Len(stdout) : stdout[k].op = "Discover"

(***************************************************************************)
(* C9.  Upsert: a descriptor that registers puts under its name the        *)
(* callable the namespace then binds and its own description, in place of  *)
(* any entry the name had; no other entry changes; no step removes an      *)
(* entry, also in a later call whose descriptor list omits the name.       *)
(***************************************************************************)
C9_RegistryUpsert ==
    [][ /\ (pc = "loop" /\ Last(dstate'[idx]) = "Registered") =>
              registry'[NameOf(script_info_list[idx])] =
                [kind |-> "tool",
                 fn |-> ns'[NameOf(script_info_list[idx])],
                 description |-> Get(script_info_list[idx], "description",
                                     "No description provided.")]
        /\ \A n \in Names :
              /\ registry[n] # Absent => registry'[n] # Absent
              /\ registry'[n] # registry[n] =>
                   /\ pc = "loop"
                   /\ Last(dstate'[idx]) = "Registered"
                   /\ n = NameOf(script_info_list[idx]) ]_vars

\* In the second call one entry of the first has been replaced and another,
\* whose name the second list omits, is still there.
C9_ReplacedAndKept ==
    /\ pc = "returned"
    /\ Len(loaded) = 2
    /\ Len(mcp_tools) = 2
    /\ \E n \in Names :
         /\ mcp_tools[1][n] # Absent
         /\ registry[n] # Absent
         /\ registry[n] # mcp_tools[1][n]
    /\ \E m \in Names :
         /\ registry[m] # Absent
         /\ registry[m] = mcp_tools[1][m]
         /\ \A k \in 1..Len(loaded[2].items) : NameOf(loaded[2].items[k]) # m

(***************************************************************************)
(* C10.  As claimed: when register_tools has processed the descriptors it  *)
(* hands back to its caller the set of names in the Registry, whether or   *)
(* not the debug flag is set.                                              *)
(***************************************************************************)
C10_ReturnsRegisteredNames ==
    pc = "returned"
    => retval = [kind |-> "names", names |-> {n \in Names : registry[n] # Absent}]

(***************************************************************************)
(* C10, amended.  When register_tools returns it hands back nothing        *)
(* (None); the names in the Registry at that moment are the last line it   *)
(* wrote to stderr when the debug flag is set, and are reported nowhere    *)
(* when it is not.                                                         *)
(***************************************************************************)
C10_LogsRegisteredNames ==
    pc = "returned"
    => /\ retval = None
       /\ DEBUG => /\ stderr # <<>>
                   /\ Last(stderr) = Line("Registered tools",
                                          {n \in Names : registry[n] # Absent})
       /\ ~DEBUG => \A k \in 1..Len(stderr) : stderr[k].msg # "Registered tools"

C10_NamesLogged ==
    /\ pc = "returned"
    /\ DEBUG
    /\ Cardinality({n \in Names : registry[n] # Absent}) = 2
    /\ \E k \in 1..Len(dstate) : Last(dstate[k]) = "Failed"

(***************************************************************************)
(* C11.  Invoke of a name the Registry does not hold is answered with      *)
(* ToolNotFoundError, an error response unlike a result and unlike any     *)
(* other error; a name it holds is answered with a result.  Serving a      *)
(* request changes neither the Registry nor the namespace, and the server  *)
(* goes on serving: it stays in service and takes the next request.        *)
(***************************************************************************)
C11_UnknownToolIsToolNotFound ==
    /\ [](\A k \in 1..Len(stdout) :
            stdout[k].op = "Invoke" =>
              IF registry[stdout[k].name] = Absent
              THEN stdout[k].status = "error" /\ stdout[k].error = "ToolNotFoundError"
              ELSE stdout[k].status = "ok")
    /\ [](pc = "serving" /\ Len(stdout) < MaxRequests =>
            ENABLED Discover /\ \A name \in RequestNames : ENABLED Invoke(name))
    /\ [][pc = "serving" => pc' = "serving" /\ registry' = registry /\ ns' = ns]_vars

\* A call of an unregistered name, and a request answered after it.
C11_ServedAfterUnknownTool ==
    /\ Len(stdout) = 2
    /\ stdout[1].op = "Invoke"
    /\ stdout[1].status = "error"
    /\ stdout[2].op = "Invoke"
    /\ stdout[2].status = "ok"

(***************************************************************************)
(* C12.  Once register_tools has returned, every descriptor of the list    *)
(* has been attempted once and is Registered or Failed, having gone        *)
(* Pending, Materializing, Resolving, Registered, or from Materializing or *)
(* Resolving to Failed; the failure of an entry for any reason, an entry   *)
(* that is no object or has no string source included, leaves no later     *)
(* descriptor unprocessed.  Taken over the descriptors that are objects    *)
(* with a string source, whatever the entries before them.                 *)
(***************************************************************************)
ValidPath(p) ==
    p \in {<<"Pending", "Materializing", "Resolving", "Registered">>,
           <<"Pending", "Materializing", "Resolving", "Failed">>,
           <<"Pending", "Materializing", "Failed">>}

C12_EveryDescriptorEndsTerminal ==
    (pc \in {"returned", "serving"} /\ file.kind = "list")
    => \A k \in 1..Len(dstate) : IsObject(file.items[k]) => ValidPath(dstate[k])

(***************************************************************************)
(* C13.  Descriptors are processed strictly in the order of the list and   *)
(* one at a time: when descriptor j has left Pending, every descriptor     *)
(* before it is Registered or Failed; a step that writes the namespace or  *)
(* the Registry is the processing of the one descriptor the loop is at,    *)
(* it leaves the states of all others as they were, and the functions it   *)
(* binds are that descriptor's.                                            *)
(***************************************************************************)
C13_StrictLoadOrder ==
    /\ [](\A i, j \in 1..Len(dstate) :
            i < j /\ dstate[j] # <<"Pending">> =>
              Len(dstate[i]) > 1 /\ Last(dstate[i]) \in {"Registered", "Failed"})
    /\ [][ (ns' # ns \/ registry' # registry \/
            (dstate' # dstate /\ Len(dstate') = Len(dstate) /\ dstate # <<>>)) =>
             /\ pc = "loop"
             /\ dstate[idx] = <<"Pending">>
             /\ \A k \in 1..Len(dstate) : k # idx => dstate'[k] = dstate[k]
             /\ \A k \in 1..Len(dstate) : k > idx => dstate[k] = <<"Pending">>
             /\ \A n \in Names :
                  ns'[n] # ns[n] /\ ns'[n].kind = "func" =>
                    ns'[n].by = idx /\ ns'[n].run = run ]_vars

\* Three descriptors done, the namespace written by the first and the third.
C13_ThreeInOrder ==
    /\ pc = "returned"
    /\ Len(dstate) = 3
    /\ \A k \in 1..3 : Last(dstate[k]) \in {"Registered", "Failed"}
    /\ \E n, m \in Names :
         /\ ns[n].kind = "func" /\ ns[n].by = 1
         /\ ns[m].kind = "func" /\ ns[m].by = 3

\* What the source of descriptor d binds when evaluated on its own, as the
\* i-th descriptor of run r.
Own(d, i, r) == Exec(StripFences(SourceOf(d)), EmptyTable, i, r).ns

(***************************************************************************)
(* C14.  One namespace for the whole process, later bindings win: the      *)
(* namespace after a descriptor is the namespace before it, overwritten    *)
(* with what this descriptor's source binds, so earlier symbols stay       *)
(* visible and a symbol bound twice holds the later binding; no binding    *)
(* is ever dropped; and a registered tool that is called sees for the      *)
(* helper symbol h what the namespace binds at the time of the call.       *)
(***************************************************************************)
C14_SharedNamespaceLaterWins ==
    /\ [][ pc = "loop" /\ IsObject(script_info_list[idx]) =>
             \A n \in Names :
                ns'[n] = IF Own(script_info_list[idx], idx, run)[n] # Absent
                         THEN Own(script_info_list[idx], idx, run)[n]
                         ELSE ns[n] ]_vars
    /\ [][ \A n \in Names : ns[n] # Absent => ns'[n] # Absent ]_vars
    /\ [](\A k \in 1..Len(stdout) :
            stdout[k].op = "Invoke" /\ stdout[k].status = "ok" =>
              stdout[k].helper = ns["h"])

\* The tool of the first descriptor, called, sees the helper of the second,
\* and a symbol only the first descriptor bound is still there.
C14_FirstToolSeesLaterHelper ==
    /\ pc = "serving"
    /\ \E k \in 1..Len(stdout) :
         /\ stdout[k].op = "Invoke" /\ stdout[k].status = "ok"
         /\ stdout[k].fn.kind = "func" /\ stdout[k].fn.by = 1
         /\ stdout[k].helper.kind = "func" /\ stdout[k].helper.by = 2
    /\ \E n \in Names : ns[n].kind = "func" /\ ns[n].by = 1

(***************************************************************************)
(* C15.  A descriptor whose source evaluates without error and whose name  *)
(* the namespace then binds to a value that is no callable fails at        *)
(* resolution, alone: the Registry is as before, nothing is raised (the    *)
(* loop goes on to the next descriptor, or to the closing lines after the  *)
(* last one).                                                              *)
(***************************************************************************)
C15_NotInvocableFailsAlone ==
    [][ ( /\ pc = "loop"
          /\ IsObject(script_info_list[idx])
          /\ Raised(script_info_list[idx]) = "none"
          /\ ns'[NameOf(script_info_list[idx])] = Const )
        => /\ registry' = registry
           /\ dstate'[idx] = <<"Pending", "Materializing", "Resolving", "Failed">>
           /\ idx' = idx + 1
           /\ pc' = IF idx < Len(script_info_list) THEN "loop" ELSE "summary" ]_vars

\* A constant under the name of the first descriptor, no tool of that name,
\* and the descriptor after it registered.
C15_ConstantSkippedNextRegistered ==
    /\ pc = "returned"
    /\ Len(dstate) = 2
    /\ ns[NameOf(file.items[1])] = Const
    /\ dstate[1] = <<"Pending", "Materializing", "Resolving", "Failed">>
    /\ registry[NameOf(file.items[1])] = Absent
    /\ Last(dstate[2]) = "Registered"

(***************************************************************************)
(* C16.  Processing a descriptor that does not end Registered leaves the   *)
(* Registry as it was, entry for entry, an earlier entry of the same name  *)
(* included; the namespace may differ, in names the descriptor's source    *)
(* binds and in no other.                                                  *)
(***************************************************************************)
C16_FailureLeavesRegistry ==
    [][ pc = "loop" /\ Last(dstate'[idx]) # "Registered"
        => /\ registry' = registry
           /\ IsObject(script_info_list[idx]) =>
                \A n \in Names :
                   ns'[n] # ns[n] => n \in Defined(script_info_list[idx])
           /\ ~IsObject(script_info_list[idx]) => ns' = ns ]_vars

\* A tool registered, then a descriptor of the same name that failed after
\* rebinding the name: the tool still holds the earlier callable.
C16_EarlierEntryKept ==
    \E k \in 2..Len(dstate) :
       LET n == NameOf(file.items[k])
       IN  /\ IsObject(file.items[k])
           /\ Last(dstate[k]) = "Failed"
           /\ registry[n] # Absent
           /\ registry[n].fn.kind = "func" /\ registry[n].fn.by < k
           /\ ns[n].kind = "func" /\ ns[n].by = k

(***************************************************************************)
(* C17.  Defaults of a descriptor.  Without a name it is processed as      *)
(* "UnnamedTool": it ends Registered exactly when its source raises        *)
(* nothing and the namespace then binds "UnnamedTool" to a callable, the   *)
(* entry is that binding under the key "UnnamedTool", and no other entry   *)
(* changes, so a batch of nameless descriptors leaves at most that one     *)
(* entry.  Without script_content the namespace is left as it was.         *)
(* Without a description the entry says "No description provided.".       *)
(***************************************************************************)
C17_DescriptorDefaults ==
    /\ [][ pc = "loop" /\ IsObject(script_info_list[idx]) =>
           LET d == script_info_list[idx]
               registered == Last(dstate'[idx]) = "Registered"
           IN  /\ "name" \notin d.has =>
                    /\ registered <=> ( /\ Raised(d) = "none"
                                        /\ ns'["UnnamedTool"].kind = "func" )
                    /\ registered => /\ registry'["UnnamedTool"] # Absent
                                     /\ registry'["UnnamedTool"].fn = ns'["UnnamedTool"]
                    /\ \A n \in Names \ {"UnnamedTool"} : registry'[n] = registry[n]
               /\ "script_content" \notin d.has =>
                    /\ ns' = ns
                    /\ Len(dstate'[idx]) = 4
               /\ "description" \notin d.has /\ registered =>
                    registry'[NameOf(d)].description = "No description provided." ]_vars
    /\ []( (\A k \in 1..Len(script_info_list) : "name" \notin script_info_list[k].has)
            => \A n \in Names \ {"UnnamedTool"} : registry[n] = Absent )

\* Two nameless descriptors, both registered: one entry, the second's.
C17_TwoNamelessOneEntry ==
    /\ pc = "returned"
    /\ Len(dstate) = 2
    /\ \A k \in 1..2 : "name" \notin file.items[k].has /\ Last(dstate[k]) = "Registered"
    /\ "script_content" \in file.items[2].has
    /\ registry["UnnamedTool"] # Absent
    /\ registry["UnnamedTool"].fn.by = 2
    /\ registry["UnnamedTool"].description = "No description provided."
    /\ \A n \in Names \ {"UnnamedTool"} : registry[n] = Absent

====
